---- MODULE Spec2Model ----
(***************************************************************************)
(* ALX Polly: the poll and vote server actions of                          *)
(* app/lib/actions/poll-actions.ts (src/unnamed/part_002, lines 220-398)   *)
(* over the two tables they use, "polls" and "votes", the registration     *)
(* action of app/lib/actions/auth-actions.ts (src/unnamed/part_000) and    *)
(* the admin page (src/unnamed/part_001).                                  *)
(*                                                                         *)
(* Every action below is one server action run to completion against the   *)
(* store with the identity provider and the store answering (the           *)
(* `if (error) return { error: error.message }` branches of a failed       *)
(* store call are transient outages and are left out, except where a       *)
(* write breaks the link of votes.poll_id to polls).  The README names     *)
(* the tables and their columns and says votes are linked to polls via     *)
(* poll_id; the repository holds no schema, so whether that link is        *)
(* absent, restricting or cascading is chosen in the initial state         *)
(* (schema.votes_fk).  The tables carry no other constraint, and the       *)
(* actions are translated as written.                                      *)
(*                                                                         *)
(* No poll action reads "votes" and submitVote reads no poll, so the       *)
(* tables are explored by three specifications: SpecPolls (the five poll   *)
(* actions, MaxPolls polls), SpecVotes (one poll, its votes and its        *)
(* deletion) and SpecOnePoll (every action, one poll).  SpecAuth holds     *)
(* registration and the admin page, which touch neither table.             *)
(***************************************************************************)
EXTENDS Integers, Sequences, FiniteSets, Bags, TLC

\* ------------------------------------------------------------------ bounds
MaxPolls == 2      \* polls ever inserted
MaxVotes == 2      \* votes ever inserted
MaxIndex == 2      \* largest optionIndex a caller submits
MaxCore == 3       \* leading characters of a password that vary freely

\* -------------------------------------------------------------- principals
\* supabase.auth.getUser(): data.user is null without a session, else a user
\* with an id and user_metadata.role.
NoUser == [id |-> "null", role |-> "none"]
Users == {[id |-> "u1", role |-> "user"], [id |-> "u2", role |-> "admin"]}
Principals == Users \cup {NoUser}

\* ------------------------------------------------------------------- texts
\* A text is a sequence of characters; " " is whitespace.
Empty == <<>>
Blank == <<" ">>
TextA == <<"a">>
TextB == <<"b">>

\* The submitted forms: the "question" field and the "options" fields.
Forms ==
  { [question |-> TextA, options |-> <<TextA, TextB>>],
    [question |-> Empty, options |-> <<TextA, TextB>>],
    [question |-> Blank, options |-> <<TextA, TextB>>],
    [question |-> TextA, options |-> <<TextA>>],
    [question |-> TextA, options |-> <<TextA, Empty>>],
    [question |-> TextA, options |-> <<TextA, Blank>>],
    [question |-> TextB, options |-> <<TextB, Empty, TextA>>] }

PollIds == 1..MaxPolls
OptionIndexes == -1..MaxIndex

\* JavaScript truthiness of a string: only "" is falsy.
Truthy(s) == Len(s) > 0

\* formData.getAll("options").filter(Boolean)
FilterBoolean(opts) == SelectSeq(opts, Truthy)

\* ----------------------------------------------------------- error values
NoError == "null"
ErrInput == "Please provide a question and at least two options."
ErrLoginCreate == "You must be logged in to create a poll."
ErrLoginUpdate == "You must be logged in to update a poll."
ErrNotAuthenticated == "Not authenticated"
\* the store's answer to .single() when no row matches
ErrNoRow == "no rows returned"
\* supabase.auth.signUp answering with an error
ErrSignUp == "sign-up failed"
\* the store's answer to a write that breaks the link of votes.poll_id to polls
ErrForeignKey == "violates foreign key constraint"

VARIABLES
  polls,       \* the "polls" table: a set of rows
  votes,       \* the "votes" table: a bag of rows (poll_id, user_id, option_index)
  nextPollId,  \* the id the store gives the next inserted poll
  schema,      \* what the deployed tables fix and no action writes (see Schemas)
  accounts,    \* the identity provider's accounts: the e-mails signed up
  last         \* the last server action run: its call and what it returned

vars == <<polls, votes, nextPollId, schema, accounts, last>>

\* The column defaults of "polls" for the columns no action writes, and what the
\* link of votes.poll_id to polls (README, "Database Schema") enforces: nothing,
\* a foreign key, or a foreign key with ON DELETE CASCADE.  The repository holds
\* no schema, so a deployment may have any of them.
ForeignKeys == {"none", "restrict", "cascade"}
Schemas == [is_public : BOOLEAN,
            requireAuthentication : BOOLEAN,
            allowMultipleVotes : BOOLEAN,
            votes_fk : ForeignKeys]

Call(op, user, id, idx, error, data) ==
  [op |-> op, caller |-> user.id, id |-> id, idx |-> idx,
   error |-> error, data |-> data]

PollRow(id) == CHOOSE p \in polls : p.id = id
Stored(id) == \E p \in polls : p.id = id

Init ==
  /\ polls = {}
  /\ votes = EmptyBag
  /\ nextPollId = 1
  /\ schema \in Schemas
  /\ accounts = {}
  /\ last = Call("none", NoUser, 0, 0, NoError, <<>>)

\* createPoll with the login check moved before the input check.
createPollLoginFirst(user, question, rawOptions) ==
  LET options == FilterBoolean(rawOptions) IN
  /\ UNCHANGED <<votes, schema, accounts>>
  /\ IF user = NoUser
       THEN /\ last' = Call("createPoll", user, 0, 0, ErrLoginCreate, <<>>)
            /\ UNCHANGED <<polls, nextPollId>>
       ELSE IF ~Truthy(question) \/ Len(options) < 2
       THEN /\ last' = Call("createPoll", user, 0, 0, ErrInput, <<>>)
            /\ UNCHANGED <<polls, nextPollId>>
       ELSE /\ nextPollId <= MaxPolls
            /\ polls' = polls \cup
                 {[id |-> nextPollId,
                   user_id |-> user.id,
                   question |-> question,
                   options |-> options,
                   created_at |-> nextPollId,
                   is_public |-> schema.is_public,
                   settings |-> [requireAuthentication |-> schema.requireAuthentication,
                                 allowMultipleVotes |-> schema.allowMultipleVotes]]}
            /\ nextPollId' = nextPollId + 1
            /\ last' = Call("createPoll", user, nextPollId, 0, NoError,
                             <<[question |-> question, options |-> rawOptions]>>)

\* createPoll storing the options as submitted, empty ones included
createPollStoresRaw(user, question, rawOptions) ==
  LET options == FilterBoolean(rawOptions) IN
  /\ UNCHANGED <<votes, schema, accounts>>
  /\ IF ~Truthy(question) \/ Len(options) < 2
       THEN /\ last' = Call("createPoll", user, 0, 0, ErrInput, <<>>)
            /\ UNCHANGED <<polls, nextPollId>>
       ELSE IF user = NoUser
       THEN /\ last' = Call("createPoll", user, 0, 0, ErrLoginCreate, <<>>)
            /\ UNCHANGED <<polls, nextPollId>>
       ELSE /\ nextPollId <= MaxPolls
            /\ polls' = polls \cup
                 {[id |-> nextPollId,
                   user_id |-> user.id,
                   question |-> question,
                   options |-> rawOptions,
                   created_at |-> nextPollId,
                   is_public |-> schema.is_public,
                   settings |-> [requireAuthentication |-> schema.requireAuthentication,
                                 allowMultipleVotes |-> schema.allowMultipleVotes]]}
            /\ nextPollId' = nextPollId + 1
            /\ last' = Call("createPoll", user, nextPollId, 0, NoError,
                             <<[question |-> question, options |-> rawOptions]>>)

\* ------------------------------------------------------------- createPoll
createPoll(user, question, rawOptions) ==
  LET options == FilterBoolean(rawOptions) IN
  /\ UNCHANGED <<votes, schema, accounts>>
  /\ IF ~Truthy(question) \/ Len(options) < 2
       THEN /\ last' = Call("createPoll", user, 0, 0, ErrInput, <<>>)
            /\ UNCHANGED <<polls, nextPollId>>
       ELSE IF user = NoUser
       THEN /\ last' = Call("createPoll", user, 0, 0, ErrLoginCreate, <<>>)
            /\ UNCHANGED <<polls, nextPollId>>
       ELSE /\ nextPollId <= MaxPolls
            /\ polls' = polls \cup
                 {[id |-> nextPollId,
                   user_id |-> user.id,
                   question |-> question,
                   options |-> options,
                   created_at |-> nextPollId,
                   is_public |-> schema.is_public,
                   settings |-> [requireAuthentication |-> schema.requireAuthentication,
                                 allowMultipleVotes |-> schema.allowMultipleVotes]]}
            /\ nextPollId' = nextPollId + 1
            /\ last' = Call("createPoll", user, nextPollId, 0, NoError,
                             <<[question |-> question, options |-> rawOptions]>>)

\* ----------------------------------------------------------- getUserPolls
RECURSIVE OrderDesc(_)
\* .order("created_at", { ascending: false })
OrderDesc(rows) ==
  IF rows = {} THEN <<>>
  ELSE LET newest == CHOOSE p \in rows : \A q \in rows : q.created_at <= p.created_at
       IN <<newest>> \o OrderDesc(rows \ {newest})

\* getUserPolls without the .eq("user_id", user.id) filter.
getUserPollsUnfiltered(user) ==
  /\ UNCHANGED <<polls, votes, nextPollId, schema, accounts>>
  /\ IF user = NoUser
       THEN last' = Call("getUserPolls", user, 0, 0, ErrNotAuthenticated, <<>>)
       ELSE last' = Call("getUserPolls", user, 0, 0, NoError, OrderDesc(polls))

getUserPolls(user) ==
  /\ UNCHANGED <<polls, votes, nextPollId, schema, accounts>>
  /\ IF user = NoUser
       THEN last' = Call("getUserPolls", user, 0, 0, ErrNotAuthenticated, <<>>)
       ELSE last' = Call("getUserPolls", user, 0, 0, NoError,
                         OrderDesc({p \in polls : p.user_id = user.id}))

\* ------------------------------------------------------------ getPollById
getPollById(user, id) ==
  /\ UNCHANGED <<polls, votes, nextPollId, schema, accounts>>
  /\ IF ~Stored(id)
       THEN last' = Call("getPollById", user, id, 0, ErrNoRow, <<>>)
       ELSE last' = Call("getPollById", user, id, 0, NoError, <<PollRow(id)>>)

\* submitVote refusing a second vote of a signed-in voter on the same poll
submitVoteUniquePerVoter(user, pollId, optionIndex) ==
  /\ UNCHANGED <<polls, nextPollId, schema, accounts>>
  /\ IF schema.votes_fk # "none" /\ ~Stored(pollId)
       THEN /\ last' = Call("submitVote", user, pollId, optionIndex, ErrForeignKey, <<>>)
            /\ UNCHANGED votes
       ELSE IF user # NoUser
               /\ \E r \in BagToSet(votes) : r.poll_id = pollId /\ r.user_id = user.id
       THEN /\ last' = Call("submitVote", user, pollId, optionIndex, "duplicate vote", <<>>)
            /\ UNCHANGED votes
       ELSE /\ BagCardinality(votes) < MaxVotes
            /\ votes' = votes (+) SetToBag({[poll_id |-> pollId, user_id |-> user.id, option_index |-> optionIndex]})
            /\ last' = Call("submitVote", user, pollId, optionIndex, NoError, <<>>)

\* ------------------------------------------------------------- submitVote
submitVote(user, pollId, optionIndex) ==
  /\ UNCHANGED <<polls, nextPollId, schema, accounts>>
  /\ IF schema.votes_fk # "none" /\ ~Stored(pollId)
       THEN /\ last' = Call("submitVote", user, pollId, optionIndex, ErrForeignKey, <<>>)
            /\ UNCHANGED votes
       ELSE /\ BagCardinality(votes) < MaxVotes
            /\ votes' = votes (+) SetToBag({[poll_id |-> pollId,
                                             user_id |-> user.id,
                                             option_index |-> optionIndex]})
            /\ last' = Call("submitVote", user, pollId, optionIndex, NoError, <<>>)

\* ------------------------------------------------------------- deletePoll
\* the rows of "votes" that reference a poll
VotesOn(id) == {r \in BagToSet(votes) : r.poll_id = id}

deletePoll(user, id) ==
  /\ UNCHANGED <<nextPollId, schema, accounts>>
  /\ IF schema.votes_fk = "restrict" /\ Stored(id) /\ VotesOn(id) # {}
       THEN /\ last' = Call("deletePoll", user, id, 0, ErrForeignKey, <<>>)
            /\ UNCHANGED <<polls, votes>>
       ELSE /\ polls' = {p \in polls : p.id # id}
            /\ votes' = IF schema.votes_fk = "cascade" /\ Stored(id)
                          THEN [r \in BagToSet(votes) \ VotesOn(id) |-> votes[r]]
                          ELSE votes
            /\ last' = Call("deletePoll", user, id, 0, NoError, <<>>)

\* updatePoll without the .eq("user_id", user.id) filter.
updatePollAnyOwner(user, pollId, question, rawOptions) ==
  LET options == FilterBoolean(rawOptions) IN
  /\ UNCHANGED <<votes, nextPollId, schema, accounts>>
  /\ IF ~Truthy(question) \/ Len(options) < 2
       THEN /\ last' = Call("updatePoll", user, pollId, 0, ErrInput, <<>>)
            /\ UNCHANGED polls
       ELSE IF user = NoUser
       THEN /\ last' = Call("updatePoll", user, pollId, 0, ErrLoginUpdate, <<>>)
            /\ UNCHANGED polls
       ELSE /\ polls' = {IF p.id = pollId
                           THEN [p EXCEPT !.question = question, !.options = options]
                           ELSE p : p \in polls}
            /\ last' = Call("updatePoll", user, pollId, 0, NoError, <<>>)

\* updatePoll writing user_id: user.id along with the question and the options,
\* matched by id alone.
updatePollTakesOwner(user, pollId, question, rawOptions) ==
  LET options == FilterBoolean(rawOptions) IN
  /\ UNCHANGED <<votes, nextPollId, schema, accounts>>
  /\ IF ~Truthy(question) \/ Len(options) < 2
       THEN /\ last' = Call("updatePoll", user, pollId, 0, ErrInput, <<>>)
            /\ UNCHANGED polls
       ELSE IF user = NoUser
       THEN /\ last' = Call("updatePoll", user, pollId, 0, ErrLoginUpdate, <<>>)
            /\ UNCHANGED polls
       ELSE /\ polls' = {IF p.id = pollId
                           THEN [p EXCEPT !.question = question, !.options = options,
                                          !.user_id = user.id]
                           ELSE p : p \in polls}
            /\ last' = Call("updatePoll", user, pollId, 0, NoError, <<>>)

\* ------------------------------------------------------------- updatePoll
updatePoll(user, pollId, question, rawOptions) ==
  LET options == FilterBoolean(rawOptions) IN
  /\ UNCHANGED <<votes, nextPollId, schema, accounts>>
  /\ IF ~Truthy(question) \/ Len(options) < 2
       THEN /\ last' = Call("updatePoll", user, pollId, 0, ErrInput, <<>>)
            /\ UNCHANGED polls
       ELSE IF user = NoUser
       THEN /\ last' = Call("updatePoll", user, pollId, 0, ErrLoginUpdate, <<>>)
            /\ UNCHANGED polls
       ELSE /\ polls' = {IF p.id = pollId /\ p.user_id = user.id
                           THEN [p EXCEPT !.question = question, !.options = options]
                           ELSE p : p \in polls}
            /\ last' = Call("updatePoll", user, pollId, 0, NoError, <<>>)

\* --------------------------------------------------------------- register
\* passwordSchema: z.string().min(8, ...).regex(/[a-z]/, ...).regex(/[A-Z]/, ...)
\*                 .regex(/[0-9]/, ...).regex(/[^a-zA-Z0-9]/, ...)
PasswordMinLength == 8
MsgLength == "Password must be at least 8 characters long."
MsgLower == "Password must contain at least one lowercase letter."
MsgUpper == "Password must contain at least one uppercase letter."
MsgDigit == "Password must contain at least one number."
MsgSpecial == "Password must contain at least one special character."

\* The characters of the passwords tried, by the class the regexes put them in.
LowerChars == {"a"}
UpperChars == {"A"}
DigitChars == {"1"}
PasswordChars == LowerChars \cup UpperChars \cup DigitChars \cup {"!"}

\* A password: up to MaxCore free characters, then a letter or a special
\* character repeated up to a length just below or at the minimum.
Passwords ==
  {core \o [i \in 1..(n - Len(core)) |-> c] :
     core \in UNION {[1..k -> PasswordChars] : k \in 0..MaxCore},
     c \in {"a", "!"},
     n \in (PasswordMinLength - 1)..PasswordMinLength}
Emails == {"a@example.com"}

\* regex.test(pw) for a character class
Matches(pw, class) == \E i \in 1..Len(pw) : pw[i] \in class

\* the same checks with the uppercase rule placed before the lowercase rule
PasswordIssuesUpperFirst(pw) ==
  (IF Len(pw) < PasswordMinLength THEN <<MsgLength>> ELSE <<>>)
  \o (IF ~Matches(pw, UpperChars) THEN <<MsgUpper>> ELSE <<>>)
  \o (IF ~Matches(pw, LowerChars) THEN <<MsgLower>> ELSE <<>>)
  \o (IF ~Matches(pw, DigitChars) THEN <<MsgDigit>> ELSE <<>>)
  \o (IF ~Matches(pw, PasswordChars \ (LowerChars \cup UpperChars \cup DigitChars))
        THEN <<MsgSpecial>> ELSE <<>>)

\* passwordSchema.safeParse(pw).error.errors: every check runs, in the order of
\* the chain, and each failing one adds its message.
PasswordIssues(pw) ==
  (IF Len(pw) < PasswordMinLength THEN <<MsgLength>> ELSE <<>>)
  \o (IF ~Matches(pw, LowerChars) THEN <<MsgLower>> ELSE <<>>)
  \o (IF ~Matches(pw, UpperChars) THEN <<MsgUpper>> ELSE <<>>)
  \o (IF ~Matches(pw, DigitChars) THEN <<MsgDigit>> ELSE <<>>)
  \o (IF ~Matches(pw, PasswordChars \ (LowerChars \cup UpperChars \cup DigitChars))
        THEN <<MsgSpecial>> ELSE <<>>)

\* last.data holds the password submitted and whether supabase.auth.signUp was
\* called; the provider either creates the account or answers with an error.
register(email, password) ==
  LET errors == PasswordIssues(password) IN
  /\ UNCHANGED <<polls, votes, nextPollId, schema>>
  /\ IF errors # <<>>
       THEN /\ last' = Call("register", NoUser, 0, 0, errors[1], <<password, FALSE>>)
            /\ UNCHANGED accounts
       ELSE \/ /\ accounts' = accounts \cup {email}
               /\ last' = Call("register", NoUser, 0, 0, NoError, <<password, TRUE>>)
            \/ /\ UNCHANGED accounts
               /\ last' = Call("register", NoUser, 0, 0, ErrSignUp, <<password, TRUE>>)

\* -------------------------------------------------------------- AdminPage
\* The principals that open the admin page: also one with no role in its
\* user_metadata and one whose role is spelled differently.
AdminPrincipals ==
  Principals \cup {[id |-> "u3", role |-> "undefined"], [id |-> "u4", role |-> "Admin"]}

\* the admin page without the role check
AdminPageAnyUser(user) ==
  /\ UNCHANGED <<polls, votes, nextPollId, schema, accounts>>
  /\ IF user = NoUser
       THEN last' = Call("AdminPage", user, 0, 0, NoError, <<"redirect", "/login">>)
       ELSE last' = Call("AdminPage", user, 0, 0, NoError, <<"render", "AdminDashboardClient">>)

AdminPage(user) ==
  /\ UNCHANGED <<polls, votes, nextPollId, schema, accounts>>
  /\ IF user = NoUser
       THEN last' = Call("AdminPage", user, 0, 0, NoError, <<"redirect", "/login">>)
       ELSE IF user.role # "admin"
       THEN last' = Call("AdminPage", user, 0, 0, NoError, <<"redirect", "/polls">>)
       ELSE last' = Call("AdminPage", user, 0, 0, NoError, <<"render", "AdminDashboardClient">>)

\* ------------------------------------------------------------ behaviours
\* Every action on every poll: the composition of the specifications below.
Next ==
  \/ \E u \in Principals, f \in Forms : createPoll(u, f.question, f.options)
  \/ \E u \in Principals : getUserPolls(u)
  \/ \E u \in Principals, id \in PollIds : getPollById(u, id)
  \/ \E u \in Principals, id \in PollIds, i \in OptionIndexes : submitVote(u, id, i)
  \/ \E u \in Principals, id \in PollIds : deletePoll(u, id)
  \/ \E u \in Principals, id \in PollIds, f \in Forms :
       updatePoll(u, id, f.question, f.options)
  \/ \E e \in Emails, pw \in Passwords : register(e, pw)
  \/ \E u \in AdminPrincipals : AdminPage(u)

Spec == Init /\ [][Next]_vars

\* The settings are read by no action and the visibility by no vote, so each
\* specification below lets vary only the column defaults its actions' claims read.
DefaultSettings == ~schema.requireAuthentication /\ ~schema.allowMultipleVotes
NoForeignKey == schema.votes_fk = "none"

\* The five poll actions on MaxPolls polls: "votes" stays empty.
InitPolls == Init /\ DefaultSettings /\ NoForeignKey

NextPolls ==
  \/ \E u \in Principals, f \in Forms : createPoll(u, f.question, f.options)
  \/ \E u \in Principals : getUserPolls(u)
  \/ \E u \in Principals, id \in PollIds : getPollById(u, id)
  \/ \E u \in Principals, id \in PollIds : deletePoll(u, id)
  \/ \E u \in Principals, id \in PollIds, f \in Forms :
       updatePoll(u, id, f.question, f.options)

SpecPolls == InitPolls /\ [][NextPolls]_vars

\* One poll (id 1: absent, created, deleted), the votes on it and its deletion.
InitVotes == Init /\ ~schema.is_public

NextVotes ==
  \/ /\ nextPollId = 1
     /\ \E u \in Principals, f \in Forms : createPoll(u, f.question, f.options)
  \/ \E u \in Principals, i \in OptionIndexes : submitVote(u, 1, i)
  \/ \E u \in Principals : deletePoll(u, 1)

SpecVotes == InitVotes /\ [][NextVotes]_vars

\* Every action, on one poll (id 1) with the default settings.
InitOnePoll == Init /\ DefaultSettings /\ ~schema.is_public /\ NoForeignKey

NextOnePoll ==
  \/ /\ nextPollId = 1
     /\ \E u \in Principals, f \in Forms : createPoll(u, f.question, f.options)
  \/ \E u \in Principals : getUserPolls(u)
  \/ \E u \in Principals : getPollById(u, 1)
  \/ \E u \in Principals, i \in OptionIndexes : submitVote(u, 1, i)
  \/ \E u \in Principals : deletePoll(u, 1)
  \/ \E u \in Principals, f \in Forms : updatePoll(u, 1, f.question, f.options)

SpecOnePoll == InitOnePoll /\ [][NextOnePoll]_vars

\* Registration and the admin page: no poll, no vote.
InitAuth == Init /\ DefaultSettings /\ ~schema.is_public /\ NoForeignKey

NextAuth ==
  \/ \E e \in Emails, pw \in Passwords : register(e, pw)
  \/ \E u \in AdminPrincipals : AdminPage(u)

SpecAuth == InitAuth /\ [][NextAuth]_vars

\* ------------------------------------------------------- claim vocabulary
\* The error kind a returned error value stands for.
ErrorKind(e) ==
  CASE e = NoError -> "ok"
    [] e = ErrInput -> "ValidationError"
    [] e \in {ErrLoginCreate, ErrLoginUpdate, ErrNotAuthenticated} -> "Unauthenticated"
    [] e = ErrNoRow -> "NotFound"
    [] OTHER -> "Unknown"

IsBlank(s) == \A i \in 1..Len(s) : s[i] = " "
NonBlankCount(opts) == Cardinality({i \in 1..Len(opts) : ~IsBlank(opts[i])})
\* validatePollInput of the specification: non-blank question, two non-blank options
ValidInput(question, opts) == ~IsBlank(question) /\ NonBlankCount(opts) >= 2

CanRead(callerId, p) == p.is_public \/ callerId = p.user_id
ValidIndex(p, i) == 0 <= i /\ i < Len(p.options)
RECURSIVE SumCopies(_)
SumCopies(rows) ==
  IF rows = {} THEN 0
  ELSE LET r == CHOOSE x \in rows : TRUE
       IN CopiesIn(r, votes) + SumCopies(rows \ {r})
\* the number of stored votes of one voter for an option of a stored poll
VotesOf(p, voterId) ==
  SumCopies({r \in BagToSet(votes) :
               r.poll_id = p.id /\ r.user_id = voterId /\ ValidIndex(p, r.option_index)})

\* ------------------------------------------------------------------ claims

\* C1: deletePoll by a principal whose id differs from the owner's fails with
\* Forbidden and the poll is still stored (so its owner can still retrieve it).
C1_DeleteByNonOwnerForbidden ==
  [][\A p \in polls :
       (last'.op = "deletePoll" /\ last'.id = p.id /\ last'.caller # p.user_id)
         => (ErrorKind(last'.error) = "Forbidden" /\ p \in polls')]_vars

\* C2: getPollById returns a poll only when it is public or the caller owns it;
\* any other caller gets Forbidden and no poll data.
C2_ReadOnlyPublicOrOwned ==
  (last.op = "getPollById" /\ Stored(last.id))
    => IF CanRead(last.caller, PollRow(last.id))
         THEN last.error = NoError /\ last.data = <<PollRow(last.id)>>
         ELSE ErrorKind(last.error) = "Forbidden" /\ last.data = <<>>

\* C3: on a stored poll that disallows multiple votes there is at most one
\* stored vote (for one of its options) per non-anonymous voter.
C3_OneVotePerVoter ==
  \A p \in polls : \A u \in Users :
    ~p.settings.allowMultipleVotes => VotesOf(p, u.id) <= 1

\* C4: submitVote with an optionIndex outside [0, len(options)) of a stored poll
\* fails with InvalidOption and creates no vote row.
C4_InvalidOptionRejected ==
  [][\A p \in polls :
       (last'.op = "submitVote" /\ last'.id = p.id /\ ~ValidIndex(p, last'.idx))
         => (ErrorKind(last'.error) = "InvalidOption" /\ votes' = votes)]_vars

\* C5: updatePoll by a principal whose id differs from the owner's leaves every
\* stored poll unchanged.
C5_UpdateByNonOwnerChangesNothing ==
  [][(last'.op = "updatePoll"
      /\ \E p \in polls : p.id = last'.id /\ p.user_id # last'.caller)
       => polls' = polls]_vars

C5_Witness ==
  /\ last.op = "updatePoll"
  /\ last.error = NoError
  /\ \E p \in polls : p.id = last.id /\ p.user_id # last.caller

\* C6: every vote for an option of a stored poll that requires authentication has a
\* voter id (an anonymous submitVote on such a poll records nothing).
C6_NoAnonymousVoteWhenAuthRequired ==
  \A p \in polls : \A r \in BagToSet(votes) :
    (r.poll_id = p.id /\ ValidIndex(p, r.option_index) /\ p.settings.requireAuthentication)
      => r.user_id # NoUser.id

\* C7 as stated: createPoll by the anonymous principal fails with Unauthenticated
\* for every input.
C7_AnonymousAlwaysUnauthenticated ==
  (last.op = "createPoll" /\ last.caller = NoUser.id)
    => ErrorKind(last.error) = "Unauthenticated"

\* C7 amended: createPoll by the anonymous principal stores no poll and fails, with
\* the input error when the question is empty or fewer than two options are
\* non-empty and with Unauthenticated otherwise; by a signed-in principal with valid
\* input it stores exactly one new poll, owned by that principal.
C7_CreatePoll ==
  [][\A u \in Principals, f \in Forms :
       (last'.op = "createPoll" /\ last'.caller = u.id
        /\ createPoll(u, f.question, f.options)) =>
         /\ u = NoUser =>
              /\ polls' = polls
              /\ last'.error =
                   IF f.question = Empty
                      \/ Cardinality({i \in 1..Len(f.options) : f.options[i] # Empty}) < 2
                     THEN ErrInput ELSE ErrLoginCreate
         /\ (u # NoUser /\ ValidInput(f.question, f.options)) =>
              /\ polls \subseteq polls'
              /\ Cardinality(polls' \ polls) = 1
              /\ \A p \in polls' \ polls : p.user_id = u.id
              /\ last'.error = NoError]_vars

C7_Witness ==
  last.op = "createPoll" /\ last.caller = NoUser.id /\ last.error = ErrLoginCreate

\* C8: no operation changes a stored poll's owner or id: a poll keeps the owner it
\* was created with.
C8_OwnerImmutable ==
  [][\A q \in polls' :
       IF \E p \in polls : p.id = q.id
         THEN \A p \in polls : p.id = q.id => p.user_id = q.user_id
         ELSE last'.op = "createPoll" /\ q.user_id = last'.caller]_vars

C8_Witness ==
  /\ last.op = "updatePoll"
  /\ last.error = NoError
  /\ \E p \in polls : p.id = last.id /\ p.user_id = last.caller
  /\ votes # EmptyBag

\* C9: createPoll and updatePoll, called by a signed-in principal, reject a blank
\* question or fewer than two non-blank options with a validation error and leave
\* the store unchanged.
C9_BlankInputRejected ==
  [][\A u \in Users, f \in Forms :
       ((createPoll(u, f.question, f.options)
         \/ \E id \in PollIds : updatePoll(u, id, f.question, f.options))
        /\ ~ValidInput(f.question, f.options))
         => (last'.error = ErrInput /\ polls' = polls)]_vars

FirstFailingRule(pw) ==
  IF Len(pw) < 8 THEN MsgLength
  ELSE IF \A i \in 1..Len(pw) : pw[i] # "a" THEN MsgLower
  ELSE IF \A i \in 1..Len(pw) : pw[i] # "A" THEN MsgUpper
  ELSE IF \A i \in 1..Len(pw) : pw[i] # "1" THEN MsgDigit
  ELSE MsgSpecial

\* C11: register accepts a password iff it has at least 8 characters, a lowercase
\* letter, an uppercase letter, a digit and a character that is none of these;
\* otherwise it returns the message of the first failing rule in the order length,
\* lowercase, uppercase, digit, special, and signs nobody up.
C11_PasswordRules ==
  [][last'.op = "register" =>
       LET pw == last'.data[1]
           passes == last'.error \in {NoError, ErrSignUp}
       IN
       /\ passes <=>
            (Len(pw) >= 8 /\ \A c \in {"a", "A", "1", "!"} : \E i \in 1..Len(pw) : pw[i] = c)
       /\ ~passes => /\ last'.error = FirstFailingRule(pw)
                      /\ last'.data[2] = FALSE
                      /\ accounts' = accounts]_vars

C11_Witness ==
  /\ last.op = "register"
  /\ last.error = MsgSpecial
  /\ accounts # {}

\* C12: the admin page redirects the anonymous principal to /login, a signed-in
\* principal whose role is not exactly "admin" (or absent) to /polls, and renders
\* the dashboard only for the role "admin".
C12_AdminGate ==
  last.op = "AdminPage" =>
    \A u \in AdminPrincipals :
      u.id = last.caller =>
        /\ u = NoUser => last.data = <<"redirect", "/login">>
        /\ u # NoUser /\ u.role # "admin" => last.data = <<"redirect", "/polls">>
        /\ last.data[1] = "render" <=> u.role = "admin"

C12_Witness ==
  last.op = "AdminPage" /\ last.caller = "u3" /\ accounts # {}

\* spec: the option texts of a form that are not empty, in the order submitted
RECURSIVE NonEmptyOptions(_)
NonEmptyOptions(opts) ==
  IF opts = <<>> THEN <<>>
  ELSE IF Head(opts) = <<>> THEN NonEmptyOptions(Tail(opts))
  ELSE <<Head(opts)>> \o NonEmptyOptions(Tail(opts))

\* C13 as stated: right after createPoll succeeds for an authenticated principal,
\* getPollById by that principal for the new poll returns the question and the
\* options exactly as submitted.
C13_RoundTripEqualsInput ==
  [][\A u \in Users :
       (/\ last.op = "createPoll" /\ last.error = NoError /\ last.caller = u.id
        /\ ValidInput(last.data[1].question, last.data[1].options)
        /\ getPollById(u, last.id))
       => /\ last'.error = NoError
          /\ last'.data[1].question = last.data[1].question
          /\ last'.data[1].options = last.data[1].options]_vars

\* C13: right after createPoll succeeds for an authenticated principal,
\* getPollById by that principal for the new poll returns the question submitted
\* and, in the order submitted, the options submitted that are not empty.
C13_RoundTrip ==
  [][\A u \in Users :
       (/\ last.op = "createPoll" /\ last.error = NoError /\ last.caller = u.id
        /\ getPollById(u, last.id))
       => /\ last'.error = NoError
          /\ last'.data[1].id = last.id
          /\ last'.data[1].user_id = u.id
          /\ last'.data[1].question = last.data[1].question
          /\ last'.data[1].options = NonEmptyOptions(last.data[1].options)]_vars

C13_Witness ==
  /\ last.op = "getPollById"
  /\ last.error = NoError
  /\ last.data[1].user_id = last.caller
  /\ last.data[1].options = <<TextB, TextA>>

\* C14 as stated: from a state whose votes all name an option of a stored poll, a deletePoll of a stored
\* poll that succeeds leaves neither the poll nor any vote on it, one that fails
\* leaves polls and votes as they were, and in both cases every stored vote still
\* refers to a stored poll.
C14_DeleteCascades ==
  [][(/\ last'.op = "deletePoll"
      /\ Stored(last'.id)
      /\ \A r \in BagToSet(votes) :
           \E q \in polls : q.id = r.poll_id /\ ValidIndex(q, r.option_index))
     => /\ IF last'.error = NoError
             THEN /\ \A q \in polls' : q.id # last'.id
                  /\ \A r \in BagToSet(votes') : r.poll_id # last'.id
             ELSE polls' = polls /\ votes' = votes
        /\ \A r \in BagToSet(votes') : \E q \in polls' : q.id = r.poll_id]_vars

\* C15 as stated: updatePoll by an authenticated principal fails with NotFound
\* for an id that names no stored poll, fails with Forbidden for a stored poll of
\* another owner whatever the input, and succeeds only when the caller's stored
\* poll was updated; deletePoll fails with NotFound for an id that names no
\* stored poll.
C15_ExistenceThenOwnership ==
  [][/\ (last'.op = "updatePoll" /\ last'.caller # NoUser.id) =>
          /\ ~Stored(last'.id) => ErrorKind(last'.error) = "NotFound"
          /\ (\E p \in polls : p.id = last'.id /\ p.user_id # last'.caller)
               => ErrorKind(last'.error) = "Forbidden"
          /\ last'.error = NoError
               => \E p \in polls : p.id = last'.id /\ p.user_id = last'.caller
     /\ (last'.op = "deletePoll" /\ ~Stored(last'.id))
          => ErrorKind(last'.error) = "NotFound"]_vars

\* C16 as stated: submitVote for a pollId that names no stored poll fails with
\* NotFound (the store's foreign key error counted as such) and records no vote.
C16_VoteOnMissingPollNotFound ==
  [][(last'.op = "submitVote" /\ ~Stored(last'.id))
       => /\ ErrorKind(last'.error) = "NotFound" \/ last'.error = ErrForeignKey
          /\ votes' = votes]_vars

====
